---- MODULE Spec2Model ----
(***************************************************************************)
(* Model of the Quick Config Generator of devboy-tools                     *)
(* (docs/components/ConfigExtractor.tsx): the provider table with its      *)
(* URL patterns, the auto-fill merge, the command template, and the        *)
(* component's event handlers with the asynchronous clipboard copy and     *)
(* its reset timer; of the standalone RepoConfigExtractor.tsx run beside   *)
(* it; and of the npm package (npm/devboy-tools): the binary lookup of     *)
(* index.js and the wrapper process of bin/devboy-tools.js.                *)
(*                                                                         *)
(* Text is a sequence of one-character strings; the fixed words of the     *)
(* command template are kept as whole lexemes, so the concatenation of a   *)
(* text's elements is the JavaScript string.  A JavaScript value that may  *)
(* be undefined is <<>> (undefined) or <<s>> (the string s).               *)
(***************************************************************************)
EXTENDS Integers, Sequences, FiniteSets, TLC

\* ------------------------------------------------------------------ bounds
\* copy requests issued over one run
MaxCopies == 2
\* clipboard writes awaiting their result at the same time
MaxInFlight == 2
\* copy requests issued over one run of a view and its twin
MaxPairCopies == 1
\* granularity of the clock, in ms
TickMs == 1000
\* SIGINT and SIGTERM signals sent to the wrapper over one run
MaxSignals == 2

\* --------------------------------------------------------------- constants
COPY_TIMEOUT_MS == 2000
PLACEHOLDER_TOKEN == <<"<your-token>">>
\* timeoutRef.current = null
NoTimer == 0

\* ------------------------------------------------------------------- text
Undefined == <<>>
Str(s) == <<s>>
\* JavaScript truthiness of a string-or-undefined value: "" and undefined are falsy
Truthy(v) == v # Undefined /\ v[1] # <<>>
\* a || b without its fallback
OrElseLeft(a, b) == a
\* a || b
OrElse(a, b) == IF Truthy(a) THEN a ELSE b
\* `${v}` in a template literal
Interpolate(v) == IF v = Undefined THEN <<"undefined">> ELSE v[1]

Min(S) == CHOOSE x \in S : \A y \in S : x <= y

Digits == {"0", "1", "2", "3", "4", "5", "6", "7", "8", "9"}
LowerLetters ==
  {"a", "b", "c", "d", "e", "f", "g", "h", "i", "j", "k", "l", "m",
   "n", "o", "p", "q", "r", "s", "t", "u", "v", "w", "x", "y", "z"}
UpperOf ==
  [c \in LowerLetters |->
     CASE c = "a" -> "A" [] c = "b" -> "B" [] c = "c" -> "C" [] c = "d" -> "D"
       [] c = "e" -> "E" [] c = "f" -> "F" [] c = "g" -> "G" [] c = "h" -> "H"
       [] c = "i" -> "I" [] c = "j" -> "J" [] c = "k" -> "K" [] c = "l" -> "L"
       [] c = "m" -> "M" [] c = "n" -> "N" [] c = "o" -> "O" [] c = "p" -> "P"
       [] c = "q" -> "Q" [] c = "r" -> "R" [] c = "s" -> "S" [] c = "t" -> "T"
       [] c = "u" -> "U" [] c = "v" -> "V" [] c = "w" -> "W" [] c = "x" -> "X"
       [] c = "y" -> "Y" [] c = "z" -> "Z"]
\* case folding of the /i flag
Lower(c) ==
  IF \E l \in LowerLetters : UpperOf[l] = c
    THEN CHOOSE l \in LowerLetters : UpperOf[l] = c
    ELSE c
LineTerminators == {"\n", "\r"}

\* [^\/]
NotSlash(c) == c # "/"
\* \d
IsDigit(c) == c \in Digits
\* [a-z\d] under /i
IsAlnum(c) == Lower(c) \in LowerLetters \cup Digits
\* .
NotLineTerminator(c) == c \notin LineTerminators
\* the character classes of the three patterns, by name
InClass(class, c) ==
  CASE class = "[^/]" -> NotSlash(c)
    [] class = "\\d" -> IsDigit(c)
    [] class = "[a-z\\d]" -> IsAlnum(c)
    [] class = "." -> NotLineTerminator(c)

\* the literal lit occurs in s at position i
HasAt(s, i, lit) ==
  /\ i >= 1
  /\ i + Len(lit) - 1 <= Len(s)
  /\ \A j \in 1..Len(lit) : s[i + j - 1] = lit[j]
\* the same under /i
HasAtCI(s, i, lit) ==
  /\ i >= 1
  /\ i + Len(lit) - 1 <= Len(s)
  /\ \A j \in 1..Len(lit) : Lower(s[i + j - 1]) = Lower(lit[j])
\* last index of the longest run of characters of a class that starts at p
\* (p - 1 when the run is empty): what a greedy X+ consumes
RunEnd(s, p, class) ==
  LET stops == {j \in p..Len(s) : ~InClass(class, s[j])}
  IN  IF stops = {} THEN Len(s) ELSE Min(stops) - 1
\* .* up to the end of the input
DotStarToEnd(s, t) == \A j \in t..Len(s) : NotLineTerminator(s[j])
\* s contains tok as a contiguous piece
Contains(s, tok) ==
  \E i \in 1..(Len(s) - Len(tok) + 1) : SubSeq(s, i, i + Len(tok) - 1) = tok

\* ----------------------------------------------------------- sample input
\* "not-a-url"
UrlProse == <<"n", "o", "t", "-", "a", "-", "u", "r", "l">>
\* "https://github.com/acme/widgets"
UrlGithub == <<"h", "t", "t", "p", "s", ":", "/", "/", "g", "i", "t", "h", "u", "b", ".", "c", "o", "m", "/", "a", "c", "m", "e", "/", "w", "i", "d", "g", "e", "t", "s">>
\* "https://github.com/acme/widgets.git"
UrlGithubGit == <<"h", "t", "t", "p", "s", ":", "/", "/", "g", "i", "t", "h", "u", "b", ".", "c", "o", "m", "/", "a", "c", "m", "e", "/", "w", "i", "d", "g", "e", "t", "s", ".", "g", "i", "t">>
\* "https://github.com/acme/widgets/issues/1"
UrlGithubPath == <<"h", "t", "t", "p", "s", ":", "/", "/", "g", "i", "t", "h", "u", "b", ".", "c", "o", "m", "/", "a", "c", "m", "e", "/", "w", "i", "d", "g", "e", "t", "s", "/", "i", "s", "s", "u", "e", "s", "/", "1">>
\* "https://gitlab.example.com/group/sub/project"
UrlGitlab == <<"h", "t", "t", "p", "s", ":", "/", "/", "g", "i", "t", "l", "a", "b", ".", "e", "x", "a", "m", "p", "l", "e", ".", "c", "o", "m", "/", "g", "r", "o", "u", "p", "/", "s", "u", "b", "/", "p", "r", "o", "j", "e", "c", "t">>
\* "https://gitlab.example.com/g": the same URL while it is being typed
UrlGitlabTyping == <<"h", "t", "t", "p", "s", ":", "/", "/", "g", "i", "t", "l", "a", "b", ".", "e", "x", "a", "m", "p", "l", "e", ".", "c", "o", "m", "/", "g">>
\* "https://gitlab.com/42"
UrlGitlab42 == <<"h", "t", "t", "p", "s", ":", "/", "/", "g", "i", "t", "l", "a", "b", ".", "c", "o", "m", "/", "4", "2">>
\* "https://app.clickup.com/12345678/v/l/6-901234567890-1"
UrlClickup == <<"h", "t", "t", "p", "s", ":", "/", "/", "a", "p", "p", ".", "c", "l", "i", "c", "k", "u", "p", ".", "c", "o", "m", "/", "1", "2", "3", "4", "5", "6", "7", "8", "/", "v", "/", "l", "/", "6", "-", "9", "0", "1", "2", "3", "4", "5", "6", "7", "8", "9", "0", "-", "1">>
\* "https://APP.clickup.com/12345678/v/li/901234567890"
UrlClickupLi == <<"h", "t", "t", "p", "s", ":", "/", "/", "A", "P", "P", ".", "c", "l", "i", "c", "k", "u", "p", ".", "c", "o", "m", "/", "1", "2", "3", "4", "5", "6", "7", "8", "/", "v", "/", "l", "i", "/", "9", "0", "1", "2", "3", "4", "5", "6", "7", "8", "9", "0">>
\* "custom"
Custom == <<"c", "u", "s", "t", "o", "m">>
\* "ghp_A"
TokenA == <<"g", "h", "p", "_", "A">>
\* "glpat-B"
TokenB == <<"g", "l", "p", "a", "t", "-", "B">>

Providers == {"github", "gitlab", "clickup"}
\* the inputs the extraction is checked on
AllUrls ==
  {<<>>, UrlProse, UrlGithub, UrlGithubGit, UrlGithubPath,
   UrlGitlab, UrlGitlabTyping, UrlGitlab42, UrlClickup, UrlClickupLi}
\* the inputs typed into the URL field of a view that copies: nothing, and a
\* URL of the shape the provider's placeholder shows
SessionUrls(provider) ==
  CASE provider = "github" -> {<<>>, UrlGithub}
    [] provider = "gitlab" -> {<<>>, UrlGitlab}
    [] provider = "clickup" -> {<<>>, UrlClickup}
Tokens == {<<>>, TokenA}
ExtraKeys == {"projectId"}
TypedExtras == {<<>>, Custom}

\* ---------------------------------------------------------------- regexes
NoMatch == [matched |-> FALSE, groups |-> <<>>]
Matched(gs) == [matched |-> TRUE, groups |-> gs]

\* a pattern without its (?:\.git)? group
AfterGitSuffixNever(s, r) == {r}
\* (?:\.git)? tried at r: the positions at which the rest of the pattern goes on
AfterGitSuffix(s, r) == IF HasAt(s, r, <<".", "g", "i", "t">>) THEN {r + 4, r} ELSE {r}

\* /github\.com\/([^\/]+)\/([^\/]+?)(?:\.git)?(?:\/.*)?$/ tried at start i
GithubMatchAt(s, i) ==
  LET lit == <<"g", "i", "t", "h", "u", "b", ".", "c", "o", "m", "/">>
      p == i + Len(lit)
      e1 == RunEnd(s, p, "[^/]")
      q == e1 + 2
      e2 == RunEnd(s, q, "[^/]")
      Suffix(t) == t = Len(s) + 1 \/ (s[t] = "/" /\ DotStarToEnd(s, t + 1))
      ends == {k \in q..e2 : \E t \in AfterGitSuffix(s, k + 1) : Suffix(t)}
  IN  IF HasAt(s, i, lit) /\ e1 >= p /\ e1 < Len(s) /\ ends # {}
        THEN Matched(<<Str(SubSeq(s, p, e1)), Str(SubSeq(s, q, Min(ends)))>>)
        ELSE NoMatch

\* /^(https?:\/\/[^\/]+)\/(.+?)(?:\.git)?(?:\/-\/.*)?$/
GitlabMatchAt(s, i) ==
  LET scheme == IF HasAt(s, i, <<"h", "t", "t", "p", "s", ":", "/", "/">>) THEN 8
                ELSE IF HasAt(s, i, <<"h", "t", "t", "p", ":", "/", "/">>) THEN 7
                ELSE 0
      p == i + scheme
      e1 == RunEnd(s, p, "[^/]")
      q == e1 + 2
      e2 == RunEnd(s, q, ".")
      Suffix(t) == t = Len(s) + 1 \/ (HasAt(s, t, <<"/", "-", "/">>) /\ DotStarToEnd(s, t + 3))
      ends == {k \in q..e2 : \E t \in AfterGitSuffix(s, k + 1) : Suffix(t)}
  IN  IF i = 1 /\ scheme > 0 /\ e1 >= p /\ e1 < Len(s) /\ ends # {}
        THEN Matched(<<Str(SubSeq(s, i, e1)), Str(SubSeq(s, q, Min(ends)))>>)
        ELSE NoMatch

\* /app\.clickup\.com\/(\d+)\/v\/(?:li\/(\d+)|l\/[a-z\d]+-(\d+)(?:-\d+)?)/i
ClickupMatchAt(s, i) ==
  LET lit == <<"a", "p", "p", ".", "c", "l", "i", "c", "k", "u", "p", ".", "c", "o", "m", "/">>
      p == i + Len(lit)
      e1 == RunEnd(s, p, "\\d")
      a == e1 + 4
      \* li\/(\d+)
      li == a + 3
      eli == RunEnd(s, li, "\\d")
      \* l\/[a-z\d]+-(\d+)
      b == a + 2
      eb == RunEnd(s, b, "[a-z\\d]")
      c == eb + 2
      ec == RunEnd(s, c, "\\d")
  IN  IF HasAtCI(s, i, lit) /\ e1 >= p /\ HasAtCI(s, e1 + 1, <<"/", "v", "/">>)
        THEN IF HasAtCI(s, a, <<"l", "i", "/">>) /\ eli >= li
               THEN Matched(<<Str(SubSeq(s, p, e1)), Str(SubSeq(s, li, eli)), Undefined>>)
             ELSE IF HasAtCI(s, a, <<"l", "/">>) /\ eb >= b /\ HasAt(s, eb + 1, <<"-">>) /\ ec >= c
               THEN Matched(<<Str(SubSeq(s, p, e1)), Undefined, Str(SubSeq(s, c, ec))>>)
             ELSE NoMatch
        ELSE NoMatch

RegexMatchAt(provider, s, i) ==
  CASE provider = "github" -> GithubMatchAt(s, i)
    [] provider = "gitlab" -> GitlabMatchAt(s, i)
    [] provider = "clickup" -> ClickupMatchAt(s, i)

\* input.match(config.regex): the leftmost start at which the pattern matches
RegexMatch(provider, s) ==
  LET starts == {i \in 1..(Len(s) + 1) : RegexMatchAt(provider, s, i).matched}
  IN  IF starts = {} THEN NoMatch ELSE RegexMatchAt(provider, s, Min(starts))

\* input.match(GITHUB_REPO_REGEX): the leftmost start at which the pattern matches
GithubMatch(s) ==
  LET starts == {i \in 1..(Len(s) + 1) : GithubMatchAt(s, i).matched}
  IN  IF starts = {} THEN NoMatch ELSE GithubMatchAt(s, Min(starts))

\* -------------------------------------------------------------- PROVIDERS
\* extractInfo reading the first alternative only
ProviderExtractInfoFirstOnly(provider, match) ==
  CASE provider = "github" ->
         <<[label |-> "Owner", value |-> match.groups[1]],
           [label |-> "Repo", value |-> match.groups[2]]>>
    [] provider = "gitlab" ->
         <<[label |-> "Instance", value |-> match.groups[1]]>>
    [] provider = "clickup" ->
         <<[label |-> "Team ID", value |-> match.groups[1]],
           [label |-> "List ID", value |-> match.groups[2]]>>

\* config.extractInfo(match)
ProviderExtractInfo(provider, match) ==
  CASE provider = "github" ->
         <<[label |-> "Owner", value |-> match.groups[1]],
           [label |-> "Repo", value |-> match.groups[2]]>>
    [] provider = "gitlab" ->
         <<[label |-> "Instance", value |-> match.groups[1]]>>
    [] provider = "clickup" ->
         <<[label |-> "Team ID", value |-> match.groups[1]],
           [label |-> "List ID", value |-> OrElse(match.groups[2], match.groups[3])]>>

\* config.extraFields: the keys of the auxiliary inputs the provider renders
ProviderExtraFields(provider) == IF provider = "gitlab" THEN {"projectId"} ELSE {}

\* config.autoFillExtra is defined
HasAutoFillExtra(provider) == provider = "gitlab"
\* config.autoFillExtra(match)
ProviderAutoFillExtra(provider, match) == [k \in {"projectId"} |-> match.groups[2]]

\* the result of a command template that read info[i].value beyond the list
Thrown == <<"TypeError">>
\* " \\\n": the continuation that joins two commands
Continuation == <<" ", "\\", "\n">>
\* every key written with `config set`, the secret included
CommandLineAlwaysSet(verb, key, value) == <<"devboy", " ", "config", " ", "set", " ", key, " ">> \o value
CommandLine(verb, key, value) == <<"devboy", " ", "config", " ", verb, " ", key, " ">> \o value
\* extra[key]
Lookup(extra, key) == IF key \in DOMAIN extra THEN extra[key] ELSE Undefined

\* config.commands(info, extra, token)
ProviderCommands(provider, info, extra, token) ==
  CASE provider = "github" ->
         IF Len(info) < 2 THEN Thrown
         ELSE CommandLine("set", "github.owner", Interpolate(info[1].value)) \o Continuation
              \o CommandLine("set", "github.repo", Interpolate(info[2].value)) \o Continuation
              \o CommandLine("set-secret", "github.token", token)
    [] provider = "gitlab" ->
         IF Len(info) < 1 THEN Thrown
         ELSE CommandLine("set", "gitlab.url", Interpolate(info[1].value)) \o Continuation
              \o CommandLine("set", "gitlab.project_id",
                             Interpolate(OrElse(Lookup(extra, "projectId"), Str(<<"<project-id>">>))))
              \o Continuation
              \o CommandLine("set-secret", "gitlab.token", token)
    [] provider = "clickup" ->
         IF Len(info) < 2 THEN Thrown
         ELSE CommandLine("set", "clickup.list_id", Interpolate(info[2].value)) \o Continuation
              \o CommandLine("set", "clickup.team_id", Interpolate(info[1].value)) \o Continuation
              \o CommandLine("set-secret", "clickup.token", token)

\* ------------------------------------------------------------ the component
\* One mounted ConfigExtractor: its useState cells and timeoutRef, with the
\* timers it has scheduled, the clipboard writes it awaits, the clipboard,
\* and the console.error log.
InitialView(provider) ==
  [provider |-> provider,
   url |-> <<>>,
   token |-> <<>>,
   infoFields |-> <<>>,
   extraValues |-> <<>>,
   copied |-> FALSE,
   showTokenHelp |-> FALSE,
   timeoutRef |-> NoTimer,
   status |-> "mounted",
   timers |-> {},
   inflight |-> <<>>,
   clipboard |-> Undefined,
   log |-> <<>>,
   sinceCopy |-> COPY_TIMEOUT_MS,
   copies |-> 0,
   cleared |-> 0]

\* the merge with the emptiness test lost: the derived value always wins
AutoFillOverwrite(prev, autoFilled) ==
  [k \in DOMAIN prev \cup DOMAIN autoFilled |->
     IF k \in DOMAIN autoFilled THEN autoFilled[k] ELSE prev[k]]

\* a merge that fills only keys never set: `if (!(key in merged))`
AutoFillAbsentOnly(prev, autoFilled) ==
  [k \in DOMAIN prev \cup DOMAIN autoFilled |->
     IF k \notin DOMAIN prev THEN autoFilled[k] ELSE prev[k]]

\* the setExtraValues updater of extractInfo: adopt an auto-filled value
\* only where the current one is falsy
AutoFillMerge(prev, autoFilled) ==
  [k \in DOMAIN prev \cup DOMAIN autoFilled |->
     IF k \in DOMAIN autoFilled /\ ~Truthy(Lookup(prev, k))
       THEN autoFilled[k]
       ELSE prev[k]]

\* a loop that stops at the first key it adopts
RECURSIVE MergeEntriesBreak(_, _)
MergeEntriesBreak(merged, entries) ==
  IF entries = <<>> THEN merged
  ELSE IF ~Truthy(Lookup(merged, entries[1][1]))
    THEN [k \in DOMAIN merged \cup {entries[1][1]} |->
            IF k = entries[1][1] THEN entries[1][2] ELSE merged[k]]
    ELSE MergeEntriesBreak(merged, Tail(entries))

\* the for loop of the updater, run over the entries of autoFilled in the
\* order Object.entries lists them; an entry is <<key, value>>
RECURSIVE MergeEntries(_, _)
MergeEntries(merged, entries) ==
  IF entries = <<>> THEN merged
  ELSE MergeEntries(
         IF ~Truthy(Lookup(merged, entries[1][1]))
           THEN [k \in DOMAIN merged \cup {entries[1][1]} |->
                   IF k = entries[1][1] THEN entries[1][2] ELSE merged[k]]
           ELSE merged,
         Tail(entries))

\* extractInfo without its else branch: a failed match leaves the fields
extractInfoKeepsFields(w, input) ==
  LET match == RegexMatch(w.provider, input)
  IN  IF match.matched
        THEN [w EXCEPT
                !.infoFields = ProviderExtractInfo(w.provider, match),
                !.extraValues =
                  IF HasAutoFillExtra(w.provider)
                    THEN AutoFillMerge(@, ProviderAutoFillExtra(w.provider, match))
                    ELSE @]
        ELSE w

extractInfo(w, input) ==
  LET match == RegexMatch(w.provider, input)
  IN  IF match.matched
        THEN [w EXCEPT
                !.infoFields = ProviderExtractInfo(w.provider, match),
                !.extraValues =
                  IF HasAutoFillExtra(w.provider)
                    THEN AutoFillMerge(@, ProviderAutoFillExtra(w.provider, match))
                    ELSE @]
        ELSE [w EXCEPT !.infoFields = <<>>]

\* a handler that starts the auxiliary values over when the input fails to match
handleUrlChangeForgets(w, value) ==
  IF RegexMatch(w.provider, value).matched
    THEN [extractInfo([w EXCEPT !.url = value], value) EXCEPT !.copied = FALSE]
    ELSE [w EXCEPT !.url = value, !.infoFields = <<>>, !.extraValues = <<>>, !.copied = FALSE]

handleUrlChange(w, value) ==
  [extractInfo([w EXCEPT !.url = value], value) EXCEPT !.copied = FALSE]

\* a token handler that forgets setCopied(false)
handleTokenChangeKeepsCopied(w, value) == [w EXCEPT !.token = value]

handleTokenChange(w, value) == [w EXCEPT !.token = value, !.copied = FALSE]

handleExtraChange(w, key, value) ==
  [w EXCEPT
     !.extraValues = [k \in DOMAIN @ \cup {key} |-> IF k = key THEN Str(value) ELSE @[k]],
     !.copied = FALSE]

\* a help button that clears copied as the input handlers do
toggleTokenHelpClearsCopied(w) == [w EXCEPT !.showTokenHelp = ~@, !.copied = FALSE]

\* onClick of the help button
toggleTokenHelp(w) == [w EXCEPT !.showTokenHelp = ~@]

\* the token passed to the template as it is
tokenDisplayRaw(w) == w.token

\* token || PLACEHOLDER_TOKEN
tokenDisplay(w) == IF w.token # <<>> THEN w.token ELSE PLACEHOLDER_TOKEN
hasInfo(w) == Len(w.infoFields) > 0
\* the template applied without the hasInfo test
commandsUnguarded(w) ==
  ProviderCommands(w.provider, w.infoFields, w.extraValues, tokenDisplay(w))

commands(w) ==
  IF ~hasInfo(w) THEN <<>>
  ELSE ProviderCommands(w.provider, w.infoFields, w.extraValues, tokenDisplay(w))

\* the copy without its clearTimeout: the stale timer stays scheduled
KeepPending(w) == w.timers

\* clearTimeout(timeoutRef.current) when timeoutRef.current is set
ClearPending(w) ==
  IF w.timeoutRef # NoTimer THEN {t \in w.timers : t.id # w.timeoutRef} ELSE w.timers

\* how many timers that were still pending clearTimeout has cancelled
ClearedAfter(w) == w.cleared + Cardinality(w.timers \ ClearPending(w))

\* the cleanup of the mount effect
cleanup(w) == [w EXCEPT !.timers = ClearPending(w), !.cleared = ClearedAfter(w)]

\* the view is torn down
unmount(w) == [cleanup(w) EXCEPT !.status = "unmounted"]

\* The provider prop of the mounted component changes: every useState cell
\* keeps its value, config is PROVIDERS[newId], and the render recomputes
\* commands; a template that throws takes the component down.
providerChanged(w, newId) ==
  LET next == [w EXCEPT !.provider = newId]
  IN  IF commands(next) = Thrown
        THEN [cleanup(next) EXCEPT !.status = "crashed"]
        ELSE next

\* a copy that has lost its guard: whatever the text is goes to the clipboard
copyRequestedUnguarded(w) ==
  [w EXCEPT !.inflight = Append(@, commands(w)), !.copies = @ + 1]

\* copyToClipboard up to its await; copies counts the requests, the ones
\* that return at once included
copyRequested(w) ==
  IF commands(w) = <<>> THEN [w EXCEPT !.copies = @ + 1]
  ELSE [w EXCEPT !.inflight = Append(@, commands(w)), !.copies = @ + 1]

RemoveAt(seq, i) == SubSeq(seq, 1, i - 1) \o SubSeq(seq, i + 1, Len(seq))
\* the handle setTimeout returns: one no pending timer has, and not the one
\* still held in timeoutRef
NewTimerId(w) ==
  Min({i \in 1..(Cardinality(w.timers) + 2) :
         i # w.timeoutRef /\ \A t \in w.timers : t.id # i})
\* setCopied(v): React drops a state update of a component that is not mounted
setCopied(w, v) == IF w.status = "mounted" THEN v ELSE w.copied

\* a continuation that sets copied and schedules nothing
publishResolvedNoTimer(w, i) ==
  [w EXCEPT
     !.inflight = RemoveAt(@, i),
     !.clipboard = Str(w.inflight[i]),
     !.copied = setCopied(w, TRUE),
     !.timers = ClearPending(w),
     !.cleared = ClearedAfter(w),
     !.timeoutRef = NoTimer,
     !.sinceCopy = 0]

\* copyToClipboard after writeText resolved
publishResolved(w, i) ==
  LET id == NewTimerId(w)
  IN  [w EXCEPT
         !.inflight = RemoveAt(@, i),
         !.clipboard = Str(w.inflight[i]),
         !.copied = setCopied(w, TRUE),
         !.timers = ClearPending(w) \cup {[id |-> id, remaining |-> COPY_TIMEOUT_MS]},
         !.cleared = ClearedAfter(w),
         !.timeoutRef = id,
         !.sinceCopy = 0]

\* a catch block that logs what it failed to copy
publishRejectedLogsText(w, i) ==
  [w EXCEPT
     !.inflight = RemoveAt(@, i),
     !.log = Append(@, <<"Failed to copy to clipboard", ":", " ">> \o w.inflight[i])]

\* a catch block that gives up the extracted fields
publishRejectedDropsFields(w, i) ==
  [w EXCEPT
     !.inflight = RemoveAt(@, i),
     !.infoFields = <<>>,
     !.log = Append(@, <<"Failed to copy to clipboard">>)]

\* copyToClipboard after writeText rejected: the catch block
publishRejected(w, i) ==
  [w EXCEPT
     !.inflight = RemoveAt(@, i),
     !.log = Append(@, <<"Failed to copy to clipboard">>)]

\* a callback that forgets setCopied(false)
timerFiredKeepsCopied(w, t) == [w EXCEPT !.timers = @ \ {t}]

\* the setTimeout callback
timerFired(w, t) ==
  [w EXCEPT !.timers = @ \ {t}, !.copied = setCopied(w, FALSE)]

\* TickMs pass
tick(w) ==
  [w EXCEPT
     !.timers = {[id |-> t.id,
                  remaining |-> IF t.remaining > TickMs THEN t.remaining - TickMs ELSE 0] : t \in @},
     !.sinceCopy = IF @ + TickMs < COPY_TIMEOUT_MS THEN @ + TickMs ELSE COPY_TIMEOUT_MS]

\* ------------------------------------------------------------ rendering
\* the token input as <input type="text">
RenderTokenInputPlain(w) == w.token
\* <input type="password" value={token}>: one bullet per character
RenderTokenInput(w) == [i \in 1..Len(w.token) |-> "*"]
\* the field summary of the result section
RenderFieldSummary(w) ==
  IF hasInfo(w) THEN [i \in 1..Len(w.infoFields) |->
                        <<w.infoFields[i].label, ":", " ">> \o Interpolate(w.infoFields[i].value)]
  ELSE <<>>
\* the <pre> of the result section
RenderCommandBlock(w) == IF hasInfo(w) THEN commands(w) ELSE <<>>

\* the copy button of the result section, by its label
RenderCopyButton(w) ==
  IF hasInfo(w) THEN <<IF w.copied THEN "Copied!" ELSE "Copy">> ELSE <<>>

\* ------------------------------------------------ the standalone component
\* One mounted RepoConfigExtractor: its useState cells and timeoutRef, with
\* the timers it has scheduled, the clipboard writes it awaits, the
\* clipboard, and the console.error log.
RepoInitial ==
  [url |-> <<>>,
   token |-> <<>>,
   owner |-> <<>>,
   repo |-> <<>>,
   copied |-> FALSE,
   showTokenHelp |-> FALSE,
   timeoutRef |-> NoTimer,
   status |-> "mounted",
   timers |-> {},
   inflight |-> <<>>,
   clipboard |-> Undefined,
   log |-> <<>>]

\* an extraction that keeps the last owner and repo when the input fails to match
extractRepoInfoKeeps(r, input) ==
  LET match == GithubMatch(input)
  IN  IF match.matched
        THEN [r EXCEPT !.owner = match.groups[1][1], !.repo = match.groups[2][1]]
        ELSE r

extractRepoInfo(r, input) ==
  LET match == GithubMatch(input)
  IN  IF match.matched
        THEN [r EXCEPT !.owner = match.groups[1][1], !.repo = match.groups[2][1]]
        ELSE [r EXCEPT !.owner = <<>>, !.repo = <<>>]

RepoHandleUrlChange(r, value) ==
  [extractRepoInfo([r EXCEPT !.url = value], value) EXCEPT !.copied = FALSE]

RepoHandleTokenChange(r, value) == [r EXCEPT !.token = value, !.copied = FALSE]

\* onClick of the help button
RepoToggleTokenHelp(r) == [r EXCEPT !.showTokenHelp = ~@]

\* token || PLACEHOLDER_TOKEN
RepoTokenDisplay(r) == IF r.token # <<>> THEN r.token ELSE PLACEHOLDER_TOKEN

RepoCommands(r) ==
  IF r.owner = <<>> \/ r.repo = <<>> THEN <<>>
  ELSE CommandLine("set", "github.owner", r.owner) \o Continuation
       \o CommandLine("set", "github.repo", r.repo) \o Continuation
       \o CommandLine("set-secret", "github.token", RepoTokenDisplay(r))

\* copyToClipboard up to its await
RepoCopyRequested(r) ==
  IF RepoCommands(r) = <<>> THEN r
  ELSE [r EXCEPT !.inflight = Append(@, RepoCommands(r))]

\* copyToClipboard after writeText resolved
RepoPublishResolved(r, i) ==
  LET id == NewTimerId(r)
  IN  [r EXCEPT
         !.inflight = RemoveAt(@, i),
         !.clipboard = Str(r.inflight[i]),
         !.copied = setCopied(r, TRUE),
         !.timers = ClearPending(r) \cup {[id |-> id, remaining |-> COPY_TIMEOUT_MS]},
         !.timeoutRef = id]

\* copyToClipboard after writeText rejected: the catch block
RepoPublishRejected(r, i) ==
  [r EXCEPT
     !.inflight = RemoveAt(@, i),
     !.log = Append(@, <<"Failed to copy to clipboard">>)]

\* the setTimeout callback
RepoTimerFired(r, t) ==
  [r EXCEPT !.timers = @ \ {t}, !.copied = setCopied(r, FALSE)]

\* TickMs pass
RepoTick(r) ==
  [r EXCEPT
     !.timers = {[id |-> t.id,
                  remaining |-> IF t.remaining > TickMs THEN t.remaining - TickMs ELSE 0] : t \in @}]

\* the field summary of the result section
RepoRenderFieldSummary(r) ==
  IF r.owner # <<>> /\ r.repo # <<>>
    THEN <<<<"Owner", ":", " ">> \o r.owner, <<"Repo", ":", " ">> \o r.repo>>
    ELSE <<>>
\* the <pre> of the result section
RepoRenderCommandBlock(r) ==
  IF r.owner # <<>> /\ r.repo # <<>> THEN RepoCommands(r) ELSE <<>>
\* the copy button of the result section, by its label
RepoRenderCopyButton(r) ==
  IF r.owner # <<>> /\ r.repo # <<>> THEN <<IF r.copied THEN "Copied!" ELSE "Copy">> ELSE <<>>

\* the documentation page renders no standalone component
NotRendered == [status |-> "none"]

\* the documentation page runs no launcher
NotLaunched == [phase |-> "none"]

\* ------------------------------------------------------------------ state
VARIABLES
  view,     \* the component under study
  twin,     \* a second run fed the same events with other tokens
  launcher, \* one run of the npm package's binary lookup
  standalone \* a RepoConfigExtractor fed the events of the view

vars == <<view, twin, launcher, standalone>>

Mounted == view.status = "mounted"

Init ==
  /\ view \in {InitialView(p) : p \in Providers}
  /\ twin = view
  /\ launcher = NotLaunched
  /\ standalone = NotRendered

UrlChanged ==
  \E value \in SessionUrls(view.provider) :
    /\ Mounted
    /\ view' = handleUrlChange(view, value)
    /\ UNCHANGED <<twin, launcher, standalone>>

TokenChanged ==
  \E value \in Tokens :
    /\ Mounted
    /\ view' = handleTokenChange(view, value)
    /\ UNCHANGED <<twin, launcher, standalone>>

ExtraFieldChanged ==
  \E key \in ProviderExtraFields(view.provider), value \in TypedExtras :
    /\ Mounted
    /\ view' = handleExtraChange(view, key, value)
    /\ UNCHANGED <<twin, launcher, standalone>>

HelpToggle ==
  /\ Mounted
  /\ view' = toggleTokenHelp(view)
  /\ UNCHANGED <<twin, launcher, standalone>>

CopyRequested ==
  /\ Mounted
  /\ view.copies < MaxCopies
  /\ Len(view.inflight) < MaxInFlight
  /\ view' = copyRequested(view)
  /\ UNCHANGED <<twin, launcher, standalone>>

PublishResolved ==
  \E i \in 1..Len(view.inflight) :
    /\ view' = publishResolved(view, i)
    /\ UNCHANGED <<twin, launcher, standalone>>

PublishRejected ==
  \E i \in 1..Len(view.inflight) :
    /\ view' = publishRejected(view, i)
    /\ UNCHANGED <<twin, launcher, standalone>>

TimerFired ==
  \E t \in view.timers :
    /\ t.remaining = 0
    /\ view' = timerFired(view, t)
    /\ UNCHANGED <<twin, launcher, standalone>>

Tick ==
  /\ view.timers # {}
  /\ \A t \in view.timers : t.remaining > 0
  /\ view' = tick(view)
  /\ UNCHANGED <<twin, launcher, standalone>>

Unmount ==
  /\ Mounted
  /\ view' = unmount(view)
  /\ UNCHANGED <<twin, launcher, standalone>>

Next ==
  \/ UrlChanged
  \/ TokenChanged
  \/ ExtraFieldChanged
  \/ HelpToggle
  \/ CopyRequested
  \/ PublishResolved
  \/ PublishRejected
  \/ TimerFired
  \/ Tick
  \/ Unmount

\* A view mounted with a fixed provider, as a documentation page mounts it:
\* every event of its life, the copies and their timers included.
Spec == Init /\ [][Next]_vars

\* The same under the scheduling of the event loop: time passes while a
\* timer is pending, and a timer that is due runs its callback.
FairSpec == Spec /\ WF_vars(Tick) /\ WF_vars(TimerFired)

\* --------------------------------------------------- extraction on all inputs
\* any of the sample inputs is typed, whatever the provider
UrlTyped ==
  \E value \in AllUrls :
    /\ Mounted
    /\ view' = handleUrlChange(view, value)
    /\ UNCHANGED <<twin, launcher, standalone>>

NextInput ==
  \/ UrlTyped
  \/ TokenChanged
  \/ ExtraFieldChanged
  \/ HelpToggle

\* The synchronous part of a view: extraction, merge and synthesis on every
\* sample input.
SpecInput == Init /\ [][NextInput]_vars

\* ---------------------------------------------- the auxiliary field untouched
NextAutoFill ==
  \/ UrlTyped
  \/ TokenChanged
  \/ HelpToggle

\* A session in which the user never edits the auxiliary field: its value
\* comes from the auto-fill of extractInfo alone.
SpecAutoFill == Init /\ [][NextAutoFill]_vars

\* ------------------------------------------------------- the provider prop
ProviderChanged ==
  \E newId \in Providers \ {view.provider} :
    /\ Mounted
    /\ view' = providerChanged(view, newId)
    /\ UNCHANGED <<twin, launcher, standalone>>

NextProps ==
  \/ UrlTyped
  \/ TokenChanged
  \/ ExtraFieldChanged
  \/ HelpToggle
  \/ ProviderChanged

\* The synchronous part of a view whose provider prop changes while it is
\* mounted.
SpecProps == Init /\ [][NextProps]_vars

\* ------------------------------------------------------------ two runs
\* The view and its twin take the same events with the same outcomes; only
\* the tokens typed into them may differ.
TwinTokens == {<<>>, TokenB}

PairUrlChanged ==
  \E value \in SessionUrls(view.provider) :
    /\ Mounted
    /\ view' = handleUrlChange(view, value)
    /\ twin' = handleUrlChange(twin, value)
    /\ UNCHANGED <<launcher, standalone>>

PairTokenChanged ==
  \E value \in Tokens, other \in TwinTokens :
    /\ Mounted
    /\ view' = handleTokenChange(view, value)
    /\ twin' = handleTokenChange(twin, other)
    /\ UNCHANGED <<launcher, standalone>>

PairExtraFieldChanged ==
  \E key \in ProviderExtraFields(view.provider), value \in TypedExtras :
    /\ Mounted
    /\ view' = handleExtraChange(view, key, value)
    /\ twin' = handleExtraChange(twin, key, value)
    /\ UNCHANGED <<launcher, standalone>>

PairCopyRequested ==
  /\ Mounted
  /\ view.copies < MaxPairCopies
  /\ Len(view.inflight) < MaxInFlight
  /\ view' = copyRequested(view)
  /\ twin' = copyRequested(twin)
  /\ UNCHANGED <<launcher, standalone>>

PairPublishResolved ==
  \E i \in 1..Len(view.inflight) :
    /\ view' = publishResolved(view, i)
    /\ twin' = publishResolved(twin, i)
    /\ UNCHANGED <<launcher, standalone>>

PairPublishRejected ==
  \E i \in 1..Len(view.inflight) :
    /\ view' = publishRejected(view, i)
    /\ twin' = publishRejected(twin, i)
    /\ UNCHANGED <<launcher, standalone>>

PairTimerFired ==
  \E t \in view.timers :
    /\ t.remaining = 0
    /\ view' = timerFired(view, t)
    /\ twin' = timerFired(twin, t)
    /\ UNCHANGED <<launcher, standalone>>

PairTick ==
  /\ view.timers # {}
  /\ \A t \in view.timers : t.remaining > 0
  /\ view' = tick(view)
  /\ twin' = tick(twin)
  /\ UNCHANGED <<launcher, standalone>>

NextPair ==
  \/ PairUrlChanged
  \/ PairTokenChanged
  \/ PairExtraFieldChanged
  \/ PairCopyRequested
  \/ PairPublishResolved
  \/ PairPublishRejected
  \/ PairTimerFired
  \/ PairTick

SpecPair == Init /\ [][NextPair]_vars

\* ------------------------------------------- the two github extractors
\* ConfigExtractor with provider github and RepoConfigExtractor side by
\* side: each event reaches both, and a clipboard write or a timer has the
\* same outcome in both.
InitEquiv ==
  /\ view = InitialView("github")
  /\ twin = view
  /\ launcher = NotLaunched
  /\ standalone = RepoInitial

BothUrlChanged ==
  \E value \in AllUrls :
    /\ view' = handleUrlChange(view, value)
    /\ standalone' = RepoHandleUrlChange(standalone, value)
    /\ UNCHANGED <<twin, launcher>>

BothTokenChanged ==
  \E value \in Tokens :
    /\ view' = handleTokenChange(view, value)
    /\ standalone' = RepoHandleTokenChange(standalone, value)
    /\ UNCHANGED <<twin, launcher>>

BothHelpToggle ==
  /\ view' = toggleTokenHelp(view)
  /\ standalone' = RepoToggleTokenHelp(standalone)
  /\ UNCHANGED <<twin, launcher>>

BothCopyRequested ==
  /\ view.copies < MaxCopies
  /\ Len(view.inflight) < MaxInFlight
  /\ Len(standalone.inflight) < MaxInFlight
  /\ view' = copyRequested(view)
  /\ standalone' = RepoCopyRequested(standalone)
  /\ UNCHANGED <<twin, launcher>>

BothPublishResolved ==
  \E i \in 1..Len(view.inflight) :
    /\ i <= Len(standalone.inflight)
    /\ view' = publishResolved(view, i)
    /\ standalone' = RepoPublishResolved(standalone, i)
    /\ UNCHANGED <<twin, launcher>>

BothPublishRejected ==
  \E i \in 1..Len(view.inflight) :
    /\ i <= Len(standalone.inflight)
    /\ view' = publishRejected(view, i)
    /\ standalone' = RepoPublishRejected(standalone, i)
    /\ UNCHANGED <<twin, launcher>>

BothTimerFired ==
  \E t \in view.timers, u \in standalone.timers :
    /\ t.remaining = 0
    /\ u.remaining = 0
    /\ view' = timerFired(view, t)
    /\ standalone' = RepoTimerFired(standalone, u)
    /\ UNCHANGED <<twin, launcher>>

BothTick ==
  /\ view.timers # {}
  /\ \A t \in view.timers \cup standalone.timers : t.remaining > 0
  /\ view' = tick(view)
  /\ standalone' = RepoTick(standalone)
  /\ UNCHANGED <<twin, launcher>>

NextEquiv ==
  \/ BothUrlChanged
  \/ BothTokenChanged
  \/ BothHelpToggle
  \/ BothCopyRequested
  \/ BothPublishResolved
  \/ BothPublishRejected
  \/ BothTimerFired
  \/ BothTick

SpecEquiv == InitEquiv /\ [][NextEquiv]_vars

\* -------------------------------------------------------- the npm package
\* npm/devboy-tools/index.js.  A path is the sequence of its segments, an
\* absolute one starting with "/"; the directory name ${platform}-${arch}
\* is written as the two segments platform, arch.
Cwd == <<"/", "work">>
\* "tools/devboy" and "/opt/devboy"
EnvRelative == <<"tools", "devboy">>
EnvAbsolute == <<"/", "opt", "devboy">>
Platforms == {"linux", "darwin", "win32"}
Archs == {"x64", "arm64"}

IsAbsolute(p) == p # <<>> /\ p[1] = "/"
\* path.resolve(p)
PathResolve(p) == IF IsAbsolute(p) THEN p ELSE Cwd \o p
\* fs.existsSync(p)
ExistsSync(l, p) == PathResolve(p) \in l.files
\* `@devboy-tools/${process.platform}-${process.arch}`
PlatformPkg(l) == <<"@devboy-tools", l.platform, l.arch>>
\* path.dirname(require.resolve(`${platformPkg}/package.json`))
PlatformPkgDir(l) == <<"/", "node_modules">> \o PlatformPkg(l)
\* `devboy${ext}`
BinaryName(l) == IF l.platform = "win32" THEN "devboy.exe" ELSE "devboy"
\* path.join(path.dirname(pkgJsonPath), "bin", binaryName)
PlatformBinaryPath(l) == PlatformPkgDir(l) \o <<"bin", BinaryName(l)>>

Return(l, path, consulted) ==
  [l EXCEPT !.phase = "done", !.consulted = consulted,
            !.result = [kind |-> "return", value |-> path]]
Throw(l, message, consulted) ==
  [l EXCEPT !.phase = "done", !.consulted = consulted,
            !.result = [kind |-> "throw", value |-> message]]
\* the two messages, with what they interpolate
EnvMissingMessage(l) ==
  <<"DEVBOY_BINARY_PATH is set to \"">> \o l.env[1] \o <<"\" but the file does not exist.">>
NotFoundMessage(l) ==
  <<"devboy binary not found. No package ">> \o PlatformPkg(l) \o <<" installed.">>

\* step 2 of getBinaryPath: the platform package
resolvePlatformPackage(l) ==
  IF l.installed /\ ExistsSync(l, PlatformBinaryPath(l))
    THEN Return(l, PlatformBinaryPath(l), TRUE)
    ELSE Throw(l, NotFoundMessage(l), TRUE)

\* a lookup that goes on to the platform package when the override is missing
getBinaryPathFallsBack(l) ==
  IF Truthy(l.env) /\ ExistsSync(l, l.env[1])
    THEN Return(l, PathResolve(l.env[1]), FALSE)
    ELSE resolvePlatformPackage(l)

getBinaryPath(l) ==
  IF Truthy(l.env)
    THEN IF ~ExistsSync(l, l.env[1])
           THEN Throw(l, EnvMissingMessage(l), FALSE)
           ELSE Return(l, PathResolve(l.env[1]), FALSE)
    ELSE resolvePlatformPackage(l)

\* the environments a lookup starts in: DEVBOY_BINARY_PATH unset, empty,
\* relative or absolute; any of the files it may look for present or not;
\* the platform package installed or not
LauncherFiles(platform, arch) ==
  {PathResolve(EnvRelative), EnvAbsolute,
   <<"/", "node_modules", "@devboy-tools", platform, arch, "bin", "devboy">>,
   <<"/", "node_modules", "@devboy-tools", platform, arch, "bin", "devboy.exe">>}
LauncherStarts ==
  {[phase |-> "start", env |-> e, files |-> fs, platform |-> p, arch |-> a,
    installed |-> i, consulted |-> FALSE, result |-> [kind |-> "none", value |-> <<>>]] :
     e \in {Undefined, Str(<<>>), Str(EnvRelative), Str(EnvAbsolute)},
     p \in Platforms, a \in Archs, i \in BOOLEAN,
     fs \in UNION {SUBSET LauncherFiles(q, b) : q \in Platforms, b \in Archs}}

InitLauncher ==
  /\ view = InitialView("github")
  /\ twin = view
  /\ launcher \in {l \in LauncherStarts : l.files \subseteq LauncherFiles(l.platform, l.arch)}
  /\ standalone = NotRendered

GetBinaryPath ==
  /\ launcher.phase = "start"
  /\ launcher' = getBinaryPath(launcher)
  /\ UNCHANGED <<view, twin, standalone>>

NextLauncher == GetBinaryPath

\* One call of getBinaryPath in each environment.
SpecLauncher == InitLauncher /\ [][NextLauncher]_vars

\* ------------------------------------------------------------ the wrapper
\* npm/devboy-tools/bin/devboy-tools.js: one run of the wrapper process.  The
\* record of the lookup goes on with the child process (none, running,
\* failed to spawn, exited with childCode / childSignal), the child.killed
\* flag, the signals the wrapper received and the ones that reached the
\* child, what was printed on stderr, and how the wrapper ended.
Null == <<>>
Some(v) == <<v>>
\* the signals the wrapper listens for
ForwardedSignals == {"SIGINT", "SIGTERM"}
\* the signals that may end the child
Signals == {"SIGINT", "SIGTERM", "SIGKILL"}
\* the codes the child may exit with
ExitCodes == {0, 1, 2}
\* the error codes of a failed spawn
SpawnErrors == {"ENOENT", "EACCES"}

WrapperFields ==
  [child |-> "none", spawnError |-> Null, childCode |-> Null, childSignal |-> Null,
   killed |-> FALSE, received |-> <<>>, forwarded |-> <<>>,
   stderr |-> <<>>, exitCode |-> Null, exitSignal |-> Null]

\* process.exit(code)
ProcessExit(l, code) == [l EXCEPT !.phase = "exited", !.exitCode = Some(code)]

\* the catch of the lookup: the message is printed and the process exits
catchLookupError(l) ==
  ProcessExit([l EXCEPT !.stderr = Append(@, l.result.value)], 1)

\* spawn(binaryPath, ...) and the registration of the listeners; err is
\* the error the operating system answers the spawn with, if any
spawnChild(l, err) ==
  IF err = Null
    THEN [l EXCEPT !.phase = "spawned", !.child = "running"]
    ELSE [l EXCEPT !.phase = "spawned", !.child = "failed", !.spawnError = err]

\* err.message of a failed spawn
SpawnErrorMessage(l) == <<"spawn", " ">> \o l.result.value \o <<" ">> \o l.spawnError

\* child.on("error")
onError(l) ==
  ProcessExit(
    [l EXCEPT !.stderr =
       Append(@, IF l.spawnError = Some("ENOENT")
                   THEN <<"devboy binary not found at: ">> \o l.result.value
                   ELSE <<"Failed to start devboy: ">> \o SpawnErrorMessage(l))],
    1)

\* subprocess.kill(sig): the signal is sent and child.killed set when the
\* child is there to take it
childKill(l, sig) ==
  IF l.child = "running"
    THEN [l EXCEPT !.forwarded = Append(@, sig), !.killed = TRUE]
    ELSE l

\* process.on(sig): the listener of SIGINT and SIGTERM
onSignal(l, sig) ==
  LET got == [l EXCEPT !.received = Append(@, sig)]
  IN  IF ~got.killed THEN childKill(got, sig) ELSE got

\* code || 1
ExitCodeOrOne(code) == IF code = Null \/ code = Some(0) THEN 1 ELSE code[1]
\* code ?? 1
ExitCodeOf(code) == IF code = Null THEN 1 ELSE code[1]

\* process.kill(process.pid, signal): a signal the process listens for runs
\* its listener, which finds no child to signal, and the process, with
\* nothing left to wait for, ends with code 0; any other signal ends it
ProcessKillSelf(l, signal) ==
  IF signal \in ForwardedSignals
    THEN ProcessExit(l, 0)
    ELSE [l EXCEPT !.phase = "exited", !.exitSignal = Some(signal)]

\* child.on("exit")
onExit(l) ==
  IF l.childSignal # Null
    THEN ProcessKillSelf(l, l.childSignal[1])
    ELSE ProcessExit(l, ExitCodeOf(l.childCode))

\* the wrapper starts on one platform, in each environment of the lookup
InitWrapper ==
  /\ view = InitialView("github")
  /\ twin = view
  /\ launcher \in {l @@ WrapperFields :
                     l \in {k \in LauncherStarts :
                              /\ k.platform = "linux"
                              /\ k.arch = "x64"
                              /\ k.files \subseteq LauncherFiles(k.platform, k.arch)}}
  /\ standalone = NotRendered

\* try { binaryPath = getBinaryPath() }
WrapperLookup ==
  /\ launcher.phase = "start"
  /\ launcher' = getBinaryPath(launcher)
  /\ UNCHANGED <<view, twin, standalone>>

CatchLookupError ==
  /\ launcher.phase = "done"
  /\ launcher.result.kind = "throw"
  /\ launcher' = catchLookupError(launcher)
  /\ UNCHANGED <<view, twin, standalone>>

SpawnChild ==
  \E err \in {Null} \cup {Some(e) : e \in SpawnErrors} :
    /\ launcher.phase = "done"
    /\ launcher.result.kind = "return"
    /\ launcher' = spawnChild(launcher, err)
    /\ UNCHANGED <<view, twin, standalone>>

ChildError ==
  /\ launcher.phase = "spawned"
  /\ launcher.child = "failed"
  /\ launcher' = onError(launcher)
  /\ UNCHANGED <<view, twin, standalone>>

\* the wrapper is sent SIGINT or SIGTERM
SignalReceived ==
  \E sig \in ForwardedSignals :
    /\ launcher.phase = "spawned"
    /\ launcher.child = "running"
    /\ Len(launcher.received) < MaxSignals
    /\ launcher' = onSignal(launcher, sig)
    /\ UNCHANGED <<view, twin, standalone>>

\* the child ends: with a code, by a signal, or reporting neither
ChildEnds ==
  \E code \in {Null} \cup {Some(c) : c \in ExitCodes},
     signal \in {Null} \cup {Some(g) : g \in Signals} :
    /\ launcher.phase = "spawned"
    /\ launcher.child = "running"
    /\ code = Null \/ signal = Null
    /\ launcher' = [launcher EXCEPT !.child = "exited", !.childCode = code, !.childSignal = signal]
    /\ UNCHANGED <<view, twin, standalone>>

ChildExit ==
  /\ launcher.phase = "spawned"
  /\ launcher.child = "exited"
  /\ launcher' = onExit(launcher)
  /\ UNCHANGED <<view, twin, standalone>>

NextWrapper ==
  \/ WrapperLookup
  \/ CatchLookupError
  \/ SpawnChild
  \/ ChildError
  \/ SignalReceived
  \/ ChildEnds
  \/ ChildExit

\* One run of the wrapper, its child and the signals sent to it.
SpecWrapper == InitWrapper /\ [][NextWrapper]_vars

\* The same under the scheduling of the process: the script runs on after
\* the lookup, and the event loop runs the listener of an event that happened.
FairSpecWrapper ==
  /\ SpecWrapper
  /\ WF_vars(CatchLookupError)
  /\ WF_vars(SpawnChild)
  /\ WF_vars(ChildError)
  /\ WF_vars(ChildExit)

\* ================================================================ claims
\* How the devboy CLI reads a command block: the lines, and the words of a line.
RECURSIVE SplitAt(_, _)
SplitAt(text, sep) ==
  IF \A i \in 1..Len(text) : text[i] # sep THEN <<text>>
  ELSE LET i == Min({j \in 1..Len(text) : text[j] = sep})
       IN  <<SubSeq(text, 1, i - 1)>> \o SplitAt(SubSeq(text, i + 1, Len(text)), sep)
CommandLines(text) == SplitAt(text, "\n")
LineWords(line) == SplitAt(line, " ")
LineVerb(line) == LineWords(line)[3]
LineKey(line) == LineWords(line)[4]
KeysInOrder(text) == [i \in 1..Len(CommandLines(text)) |-> LineKey(CommandLines(text)[i])]
\* the text the view shows as its command block, when it shows one
ShowsCommands(w) == commands(w) # <<>> /\ commands(w) # Thrown
ProjectId(w) == Lookup(w.extraValues, "projectId")

\* C1: a urlChanged event never changes an auxiliary value that was non-empty
\* just before it, whether an earlier auto-fill or the user had set it.
C1_UrlChangeKeepsNonEmptyExtra ==
  [][UrlTyped =>
       \A k \in ExtraKeys :
         Truthy(Lookup(view.extraValues, k)) =>
           Lookup(view'.extraValues, k) = Lookup(view.extraValues, k)]_vars
\* the URL deriving "42" is extracted while projectId holds the path an
\* earlier URL auto-filled
C1_Witness ==
  /\ view.provider = "gitlab"
  /\ view.url = UrlGitlab42
  /\ hasInfo(view)
  /\ ProjectId(view) = Str(<<"g", "r", "o", "u", "p", "/", "s", "u", "b", "/", "p", "r", "o", "j", "e", "c", "t">>)

\* C2: a copy that succeeds while the timer of an earlier copy is pending
\* cancels that timer and installs one with the full delay, copied is true
\* after it, and no timer ever fires sooner than the full delay after the
\* last success (so the superseded callback never runs).
C2_SecondCopyRestartsTimer ==
  [][/\ (PublishResolved /\ Mounted /\ view.timers # {}) =>
          /\ view'.copied
          /\ view'.timers \cap view.timers = {}
          /\ \E t \in view'.timers :
               /\ view'.timers = {t}
               /\ t.id = view'.timeoutRef
               /\ t.remaining = COPY_TIMEOUT_MS
     /\ TimerFired => view.sinceCopy >= COPY_TIMEOUT_MS]_vars
\* a success has cancelled a pending timer and its own is running
C2_Witness ==
  /\ Mounted
  /\ view.cleared >= 1
  /\ view.copied
  /\ \E t \in view.timers : t.id = view.timeoutRef /\ t.remaining < COPY_TIMEOUT_MS

\* C3: a successful copy sets copied, and while the view is mounted copied
\* does not stay true for ever: the reset timer fires and clears it.
C3_CopiedEventuallyResets ==
  /\ [][(PublishResolved /\ Mounted) => view'.copied]_vars
  /\ (view.copied /\ Mounted) ~> (~view.copied \/ ~Mounted)
\* the timer of the last successful copy has fired on the mounted view
C3_Witness ==
  /\ Mounted
  /\ ~view.copied
  /\ view.timers = {}
  /\ view.timeoutRef # NoTimer
  /\ view.sinceCopy = COPY_TIMEOUT_MS
  /\ view.clipboard = Str(commands(view))

\* C4 (as claimed): once a copy request has failed, copied is false, also
\* when the timer of an earlier successful copy is still pending.
C4_FailedCopyLeavesCopiedFalse ==
  [][(PublishRejected /\ Mounted) => ~view'.copied]_vars

\* C5 (as claimed): providerChanged leaves url, token and extraValues empty,
\* no extracted fields, copied false and the help hidden.
C5_ProviderChangeResets ==
  [][ProviderChanged =>
       /\ view'.url = <<>>
       /\ view'.token = <<>>
       /\ view'.extraValues = <<>>
       /\ view'.infoFields = <<>>
       /\ ~view'.copied
       /\ ~view'.showTokenHelp]_vars

\* the order the claim gives: the URL-derived fields as the definition
\* declares them, then the auxiliary fields, then the token
DeclaredKeyOrder(provider) ==
  CASE provider = "github" -> <<<<"github.owner">>, <<"github.repo">>, <<"github.token">>>>
    [] provider = "gitlab" -> <<<<"gitlab.url">>, <<"gitlab.project_id">>, <<"gitlab.token">>>>
    [] provider = "clickup" -> <<<<"clickup.team_id">>, <<"clickup.list_id">>, <<"clickup.token">>>>

\* C6 (as claimed): every non-empty command text lists its commands in the
\* declared order: URL-derived fields, auxiliary fields, the token last.
C6_CommandsInDeclaredOrder ==
  ShowsCommands(view) => KeysInOrder(commands(view)) = DeclaredKeyOrder(view.provider)

\* C7: every non-empty command text sets exactly the keys of the provider's
\* row of the key table, the token with set-secret and the others with set.
C7_CommandsSetExactlyTheKeys ==
  ShowsCommands(view) =>
    LET lines == CommandLines(commands(view))
    IN  /\ Len(lines) = 3
        /\ {LineKey(lines[i]) : i \in 1..Len(lines)} =
             {DeclaredKeyOrder(view.provider)[i] : i \in 1..3}
        /\ \A i \in 1..Len(lines) :
             /\ SubSeq(LineWords(lines[i]), 1, 2) = <<<<"devboy">>, <<"config">>>>
             /\ LineVerb(lines[i]) =
                  IF LineKey(lines[i]) = DeclaredKeyOrder(view.provider)[3]
                    THEN <<"set-secret">> ELSE <<"set">>
\* a clickup view shows the commands of a matched list URL with a token
C7_Witness ==
  /\ view.provider = "clickup"
  /\ view.url = UrlClickup
  /\ view.token = TokenA
  /\ ShowsCommands(view)

\* the provider whose URL shape a sample input has
ShapeOf(url) ==
  CASE url \in {UrlGithub, UrlGithubGit, UrlGithubPath} -> "github"
    [] url \in {UrlGitlab, UrlGitlabTyping, UrlGitlab42} -> "gitlab"
    [] url \in {UrlClickup, UrlClickupLi} -> "clickup"
    [] OTHER -> "none"
NothingExtracted(w) == w.infoFields = <<>> /\ commands(w) = <<>>

\* C8 (as claimed): under every provider, an input of another provider's
\* shape, the empty string and not-a-url yield no fields and empty text.
C8_ForeignShapeYieldsNothing ==
  ShapeOf(view.url) # view.provider => NothingExtracted(view)
\* C8 (amended): that holds under github and clickup, and under gitlab for
\* the empty string and not-a-url; under gitlab a github or clickup URL
\* matches, its origin becoming the Instance and its path the project id.
C8_ForeignShapeYieldsNothingButGitlab ==
  /\ (view.provider \in {"github", "clickup"} /\ ShapeOf(view.url) # view.provider)
       => NothingExtracted(view)
  /\ (view.provider = "gitlab" /\ ShapeOf(view.url) = "none") => NothingExtracted(view)
  /\ (view.provider = "gitlab" /\ ShapeOf(view.url) \in {"github", "clickup"}) =>
       /\ Len(view.infoFields) = 1
       /\ view.infoFields[1].label = "Instance"
       /\ \E e \in 1..Len(view.url) : view.infoFields[1].value = Str(SubSeq(view.url, 1, e))
       /\ ShowsCommands(view)
\* a github view was given the gitlab URL after its own and shows nothing
C8_Witness ==
  /\ view.provider = "github"
  /\ view.url = UrlGitlab
  /\ NothingExtracted(view)

\* what the three surfaces of the view show, as one text per surface
Surfaces(w) ==
  {RenderTokenInput(w), RenderCommandBlock(w)}
    \cup {RenderFieldSummary(w)[i] : i \in 1..Len(RenderFieldSummary(w))}

\* C9 (as claimed): with a non-empty token, no surface of the view (token
\* input, field summary, command block) holds the token in plain text.
C9_TokenMaskedOnEverySurface ==
  view.token # <<>> => \A s \in Surfaces(view) : ~Contains(s, view.token)
\* C9 (amended): the token input shows one bullet per character and the
\* field summary is the same whatever token was typed, so neither shows the
\* token; the command block of a view with fields holds it in plain text.
C9_TokenMaskedExceptInCommands ==
  /\ view.token # <<>> => ~Contains(RenderTokenInput(view), view.token)
  /\ Len(RenderTokenInput(view)) = Len(view.token)
  /\ RenderFieldSummary(view) = RenderFieldSummary(twin)
  /\ (view.token # <<>> /\ hasInfo(view)) => Contains(RenderCommandBlock(view), view.token)
\* the view and its twin hold different tokens and show their fields
C9_Witness ==
  /\ view.token = TokenA
  /\ twin.token = TokenB
  /\ hasInfo(view)
  /\ RenderCommandBlock(view) # RenderCommandBlock(twin)

\* C10: two runs that differ only in the tokens typed write the same
\* messages to the error log, and no message holds a token.
C10_LogIndependentOfToken ==
  /\ view.log = twin.log
  /\ \A i \in 1..Len(view.log) :
       \A tok \in (Tokens \cup TwinTokens) \ {<<>>} : ~Contains(view.log[i], tok)
\* a clipboard failure was logged in two runs whose tokens differ
C10_Witness ==
  /\ Len(view.log) >= 1
  /\ view.token = TokenA
  /\ twin.token = TokenB

\* the value the command text gives to a key, <<>> when the key is not set
ValueOfKey(text, key) ==
  LET lines == CommandLines(text)
      hits == {i \in 1..Len(lines) : Len(LineWords(lines[i])) >= 5 /\ LineKey(lines[i]) = key}
  IN  IF hits = {} THEN <<>> ELSE LineWords(lines[Min(hits)])[5]

\* C11 (as claimed): in a gitlab session whose project-id field is never
\* edited by hand, whenever the URL last typed matches the pattern,
\* extraValues.projectId is the project path captured from that URL and the
\* command text sets gitlab.project_id to it, also when the URL was reached
\* through shorter matching inputs.
C11_ProjectIdFollowsLastUrl ==
  (view.provider = "gitlab" /\ RegexMatch("gitlab", view.url).matched) =>
    LET path == RegexMatch("gitlab", view.url).groups[2]
    IN  /\ ProjectId(view) = path
        /\ ValueOfKey(commands(view), <<"gitlab.project_id">>) = path[1]

\* the auxiliary keys the merge is exercised on: the one gitlab declares and
\* a second one, as a provider with two auxiliary fields would declare
MergeKeys == {"projectId", "ref"}
\* starting extraValues: every subset of the keys, each value empty or typed
MergeStarts ==
  UNION {[ks -> {Str(<<>>), Str(Custom)}] : ks \in SUBSET MergeKeys}
\* what autoFillExtra may return: at least one key, each value empty or derived
MergeFills ==
  UNION {[ks -> {Str(<<>>), Str(<<"4", "2">>)}] : ks \in (SUBSET MergeKeys) \ {{}}}
\* the entries of a record in each order Object.entries could list them
EntryOrders(a) ==
  {es \in UNION {[1..n -> {<<k, a[k]>> : k \in DOMAIN a}] : n \in {Cardinality(DOMAIN a)}} :
     \A i, j \in 1..Len(es) : i # j => es[i] # es[j]}

\* C12: merging the same auto-filled values into the already merged
\* extraValues changes nothing, for every match of a sample input on the
\* view's extraValues and for every bounded pair of starting values and
\* auto-filled values; and the merged result is the same in whichever order
\* the keys are visited.
C12_MergeIdempotentAnyOrder ==
  /\ \A input \in AllUrls :
       (HasAutoFillExtra(view.provider) /\ RegexMatch(view.provider, input).matched) =>
         LET a == ProviderAutoFillExtra(view.provider, RegexMatch(view.provider, input))
             once == AutoFillMerge(view.extraValues, a)
         IN  /\ AutoFillMerge(once, a) = once
             /\ \A es \in EntryOrders(a) : MergeEntries(view.extraValues, es) = once
  /\ \A prev \in MergeStarts, a \in MergeFills :
       \A es \in EntryOrders(a) :
         /\ MergeEntries(prev, es) = AutoFillMerge(prev, a)
         /\ MergeEntries(MergeEntries(prev, es), es) = MergeEntries(prev, es)
\* the URL of a gitlab view matched and its project path was merged into
\* the auxiliary values
C12_Witness ==
  /\ view.provider = "gitlab"
  /\ hasInfo(view)
  /\ RegexMatch("gitlab", view.url).matched
  /\ ProjectId(view) = RegexMatch("gitlab", view.url).groups[2]
  /\ AutoFillMerge(view.extraValues,
                   ProviderAutoFillExtra("gitlab", RegexMatch("gitlab", UrlGitlab42)))
       = view.extraValues

\* C13: a copy request hands the command text to the clipboard only when
\* the text is non-empty; on an empty text it publishes nothing, leaves
\* copied as it was and schedules no timer.
C13_CopyOnlyNonEmptyText ==
  /\ [][CopyRequested =>
          /\ view'.copied = view.copied
          /\ view'.timers = view.timers
          /\ view'.timeoutRef = view.timeoutRef
          /\ view'.clipboard = view.clipboard
          /\ view'.log = view.log
          /\ view'.inflight =
               IF commands(view) = <<>> THEN view.inflight
               ELSE Append(view.inflight, commands(view))]_vars
  /\ [](/\ \A i \in 1..Len(view.inflight) : view.inflight[i] # <<>>
        /\ view.clipboard # Str(<<>>))
\* a copy was requested on a view without command text and nothing came of it
C13_Witness ==
  /\ Mounted
  /\ view.copies >= 1
  /\ commands(view) = <<>>
  /\ view.inflight = <<>>
  /\ view.clipboard = Undefined
  /\ view.log = <<>>
  /\ view.timers = {}
  /\ view.timeoutRef = NoTimer
  /\ ~view.copied

\* C14: right after a urlChanged, tokenChanged or extraFieldChanged event
\* copied is false, whatever it was before and also when the event brings
\* the value the field already holds: a step that leaves copied true is
\* none of these events.
C14_EditClearsCopied ==
  [][view'.copied => ~(UrlChanged \/ TokenChanged \/ ExtraFieldChanged)]_vars
\* an edit has cleared copied while the reset timer of the copy is pending
C14_Witness ==
  /\ Mounted
  /\ ~view.copied
  /\ view.clipboard # Undefined
  /\ \E t \in view.timers : t.id = view.timeoutRef /\ t.remaining > 0

\* the set-secret lines of a command text
SecretLines(text) ==
  {i \in 1..Len(CommandLines(text)) : LineVerb(CommandLines(text)[i]) = <<"set-secret">>}

\* C15: whenever fields are extracted, the command text has one set-secret
\* command; its value is the literal <your-token> when the token is empty
\* and the token otherwise, and is never empty.
C15_TokenOrPlaceholder ==
  ShowsCommands(view) =>
    LET lines == CommandLines(commands(view))
    IN  /\ Cardinality(SecretLines(commands(view))) = 1
        /\ \A i \in SecretLines(commands(view)) :
             /\ Len(LineWords(lines[i])) = 5
             /\ LineWords(lines[i])[5] # <<>>
             /\ LineWords(lines[i])[5] =
                  IF view.token = <<>> THEN <<"<your-token>">> ELSE view.token
\* fields are extracted while the token field is empty
C15_Witness ==
  /\ ShowsCommands(view)
  /\ view.token = <<>>
  /\ Contains(commands(view), <<"set-secret", " ", "github.token", " ", "<your-token>">>)

\* C16: in every gitlab state with extracted fields the gitlab.project_id
\* command carries extraValues.projectId when that is non-empty and the
\* placeholder <project-id> when it is empty or absent; never an empty value.
C16_ProjectIdOrPlaceholder ==
  (view.provider = "gitlab" /\ ShowsCommands(view)) =>
    LET value == ValueOfKey(commands(view), <<"gitlab.project_id">>)
    IN  /\ value # <<>>
        /\ value = IF Truthy(ProjectId(view)) THEN ProjectId(view)[1] ELSE <<"<project-id>">>
\* the user has cleared the auto-filled project id of a matched URL
C16_Witness ==
  /\ view.provider = "gitlab"
  /\ view.url = UrlGitlab
  /\ hasInfo(view)
  /\ ProjectId(view) = Str(<<>>)
  /\ Contains(commands(view), <<"gitlab.project_id", " ", "<project-id>", " ">>)

\* the step is a urlChanged event: handleUrlChange ran on the URL the view
\* holds after it
UrlChangedStep ==
  /\ Mounted
  /\ view'.url \in AllUrls
  /\ view' = handleUrlChange(view, view'.url)

\* the result section of a mounted view is on the page
ResultSectionShown(w) ==
  /\ RenderFieldSummary(w) # <<>>
  /\ RenderCommandBlock(w) # <<>>
  /\ RenderCopyButton(w) # <<>>
ResultSectionAbsent(w) ==
  /\ RenderFieldSummary(w) = <<>>
  /\ RenderCommandBlock(w) = <<>>
  /\ RenderCopyButton(w) = <<>>

\* C17: in a mounted view the command text is empty exactly when no fields
\* are extracted, and the field summary, the command block and the copy
\* button are rendered exactly when fields are extracted; a urlChanged to an
\* input that does not match clears the fields of an earlier match.
C17_TextAndSectionFollowFields ==
  /\ [](Mounted =>
          /\ (commands(view) = <<>>) <=> (view.infoFields = <<>>)
          /\ IF view.infoFields = <<>> THEN ResultSectionAbsent(view)
             ELSE ResultSectionShown(view))
  /\ [][(UrlChangedStep /\ ~RegexMatch(view.provider, view'.url).matched) =>
          /\ view'.infoFields = <<>>
          /\ commands(view') = <<>>
          /\ ResultSectionAbsent(view')]_vars
\* not-a-url was typed over a matched gitlab URL and the section is gone
C17_Witness ==
  /\ Mounted
  /\ view.provider = "gitlab"
  /\ view.url = UrlProse
  /\ Truthy(ProjectId(view))
  /\ view.infoFields = <<>>
  /\ ResultSectionAbsent(view)

\* "12345678" and "901234567890"
TeamDigits == <<"1", "2", "3", "4", "5", "6", "7", "8">>
ListDigits == <<"9", "0", "1", "2", "3", "4", "5", "6", "7", "8", "9", "0">>

\* C18: for a ClickUp match the List ID is the capture of the li/<digits>
\* alternative when that is non-empty and otherwise the digits after the
\* hyphen of the l/<x>-<digits> alternative; the l/6-901234567890-1 sample
\* gives Team ID 12345678 and List ID 901234567890.
C18_ListIdFirstThenSecond ==
  (view.provider = "clickup" /\ RegexMatch("clickup", view.url).matched) =>
    LET match == RegexMatch("clickup", view.url)
    IN  /\ Len(view.infoFields) = 2
        /\ view.infoFields[1] = [label |-> "Team ID", value |-> match.groups[1]]
        /\ view.infoFields[2].label = "List ID"
        /\ view.infoFields[2].value =
             IF Truthy(match.groups[2]) THEN match.groups[2] ELSE match.groups[3]
        /\ view.url = UrlClickup =>
             /\ match.groups = <<Str(TeamDigits), Undefined, Str(ListDigits)>>
             /\ view.infoFields[1].value = Str(TeamDigits)
             /\ view.infoFields[2].value = Str(ListDigits)
        /\ view.url = UrlClickupLi =>
             /\ match.groups = <<Str(TeamDigits), Str(ListDigits), Undefined>>
             /\ view.infoFields[2].value = Str(ListDigits)
\* the hyphen-embedded list URL was extracted
C18_Witness ==
  /\ view.provider = "clickup"
  /\ view.url = UrlClickup
  /\ Len(view.infoFields) = 2
  /\ view.infoFields[2].value = Str(ListDigits)

\* "acme", "widgets" and "https://gitlab.example.com"
Acme == <<"a", "c", "m", "e">>
Widgets == <<"w", "i", "d", "g", "e", "t", "s">>
GitlabInstance == <<"h", "t", "t", "p", "s", ":", "/", "/", "g", "i", "t", "l", "a", "b", ".", "e", "x", "a", "m", "p", "l", "e", ".", "c", "o", "m">>

\* C19: a well-formed sample URL of each provider yields the documented
\* fields and values: https://github.com/acme/widgets gives Owner acme and
\* Repo widgets and, with no token typed, commands setting github.owner
\* acme, github.repo widgets and github.token <your-token>; the same URL
\* with a .git suffix or trailing path segments gives the same Owner and
\* Repo; the gitlab sample gives its Instance, the clickup sample its Team
\* ID and List ID.
C19_SampleUrlsYieldDocumentedFields ==
  /\ (view.provider = "github" /\ view.url \in {UrlGithub, UrlGithubGit, UrlGithubPath}) =>
       /\ view.infoFields = <<[label |-> "Owner", value |-> Str(Acme)],
                              [label |-> "Repo", value |-> Str(Widgets)]>>
       /\ ValueOfKey(commands(view), <<"github.owner">>) = Acme
       /\ ValueOfKey(commands(view), <<"github.repo">>) = Widgets
       /\ view.token = <<>> =>
            ValueOfKey(commands(view), <<"github.token">>) = <<"<your-token>">>
  /\ (view.provider = "gitlab" /\ view.url = UrlGitlab) =>
       view.infoFields = <<[label |-> "Instance", value |-> Str(GitlabInstance)]>>
  /\ (view.provider = "clickup" /\ view.url = UrlClickup) =>
       view.infoFields = <<[label |-> "Team ID", value |-> Str(TeamDigits)],
                           [label |-> "List ID", value |-> Str(ListDigits)]>>
\* the github URL with its .git suffix was extracted with no token typed
C19_Witness ==
  /\ view.provider = "github"
  /\ view.url = UrlGithubGit
  /\ view.token = <<>>
  /\ Len(view.infoFields) = 2
  /\ view.infoFields[2].value = Str(Widgets)

\* C20: a urlChanged event whose input does not match the provider's
\* pattern raises no error and changes only url, the extracted fields
\* (cleared) and copied (cleared); token, extraValues and the help toggle are
\* as before.
C20_FailedMatchFrame ==
  [][(UrlChangedStep /\ ~RegexMatch(view.provider, view'.url).matched) =>
       /\ view' = [view EXCEPT !.url = view'.url, !.infoFields = <<>>, !.copied = FALSE]
       /\ view'.token = view.token
       /\ view'.extraValues = view.extraValues
       /\ view'.showTokenHelp = view.showTokenHelp
       /\ view'.status = "mounted"
       /\ commands(view') = <<>>]_vars
\* not-a-url was typed into a gitlab view that holds a token, shows the help
\* and keeps the project id an earlier URL had filled in
C20_Witness ==
  /\ view.provider = "gitlab"
  /\ view.url = UrlProse
  /\ view.infoFields = <<>>
  /\ view.token = TokenA
  /\ view.showTokenHelp
  /\ ProjectId(view) = RegexMatch("gitlab", UrlGitlab).groups[2]

\* C21: helpToggle flips the help and leaves url, token, the extracted
\* fields, extraValues, copied and the pending reset timer as they were; two
\* toggles in a row give back the state they started from.
C21_HelpToggleFrame ==
  /\ [][HelpToggle =>
          /\ view'.showTokenHelp = ~view.showTokenHelp
          /\ view' = [view EXCEPT !.showTokenHelp = view'.showTokenHelp]
          /\ commands(view') = commands(view)]_vars
  /\ [](toggleTokenHelp(toggleTokenHelp(view)) = view)
\* the help is open on a view that shows Copied! with its reset timer pending
C21_Witness ==
  /\ Mounted
  /\ view.showTokenHelp
  /\ view.copied
  /\ \E t \in view.timers : t.id = view.timeoutRef /\ t.remaining < COPY_TIMEOUT_MS

\* C22: a clipboard publish that fails leaves url, token, the extracted
\* fields, extraValues and the command text as they were, so the command
\* block stays on the page; the view is as alive afterwards as before.
C22_FailedPublishFrame ==
  [][PublishRejected =>
       /\ view' = [view EXCEPT !.inflight = view'.inflight, !.log = view'.log]
       /\ Len(view'.inflight) = Len(view.inflight) - 1
       /\ view'.status = view.status
       /\ commands(view') = commands(view)
       /\ RenderCommandBlock(view') = RenderCommandBlock(view)]_vars
\* the only copy so far has failed and the command block is still shown
C22_Witness ==
  /\ Mounted
  /\ Len(view.log) >= 1
  /\ view.inflight = <<>>
  /\ view.clipboard = Undefined
  /\ ShowsCommands(view)
  /\ RenderCommandBlock(view) = commands(view)

\* C23: an auxiliary value the user has cleared to the empty string is
\* treated like one never set: the next urlChanged with a matching URL fills
\* it with the value derived from that URL.
C23_ClearedValueRefilled ==
  [][(/\ HasAutoFillExtra(view.provider)
      /\ ~Truthy(ProjectId(view))
      /\ UrlChangedStep
      /\ RegexMatch(view.provider, view'.url).matched) =>
       /\ ProjectId(view') = RegexMatch(view.provider, view'.url).groups[2]
       /\ view'.extraValues =
            handleUrlChange([view EXCEPT !.extraValues = <<>>], view'.url).extraValues]_vars
\* the clipboard holds commands copied while the project id was cleared, and
\* the project id is again the path of the URL
C23_Witness ==
  /\ view.provider = "gitlab"
  /\ view.clipboard # Undefined
  /\ Contains(view.clipboard[1], <<"gitlab.project_id", " ", "<project-id>">>)
  /\ RegexMatch("gitlab", view.url).matched
  /\ ProjectId(view) = RegexMatch("gitlab", view.url).groups[2]

\* C24: getBinaryPath resolves in a fixed order.  With DEVBOY_BINARY_PATH
\* set and non-empty the result is that path made absolute when the file
\* exists and an Error otherwise, and the platform package is not consulted;
\* with it unset or empty the result is <platform package dir>/bin/devboy
\* (devboy.exe on win32) when the package resolves and that file exists, and
\* an Error in every other case.
C24_BinaryPathResolutionOrder ==
  launcher.phase = "done" =>
    LET l == launcher
        override == l.env # Undefined /\ l.env # Str(<<>>)
        absolute == IF l.env[1][1] = "/" THEN l.env[1] ELSE <<"/", "work">> \o l.env[1]
        binary == <<"/", "node_modules", "@devboy-tools", l.platform, l.arch, "bin",
                    IF l.platform = "win32" THEN "devboy.exe" ELSE "devboy">>
    IN  IF override
          THEN /\ ~l.consulted
               /\ IF absolute \in l.files
                    THEN l.result = [kind |-> "return", value |-> absolute]
                    ELSE l.result.kind = "throw"
          ELSE IF l.installed /\ binary \in l.files
                 THEN l.result = [kind |-> "return", value |-> binary]
                 ELSE l.result.kind = "throw"
\* the override names a missing file while the platform package and its
\* binary are there: the lookup has thrown without looking at the package
C24_Witness ==
  /\ launcher.phase = "done"
  /\ launcher.env = Str(EnvRelative)
  /\ PathResolve(EnvRelative) \notin launcher.files
  /\ launcher.installed
  /\ PlatformBinaryPath(launcher) \in launcher.files
  /\ launcher.result.kind = "throw"

\* C25 (as claimed): whenever copied is true on a mounted view, the text
\* last published to the clipboard is the command text the view displays,
\* also when the publish completed after an edit made while it was in flight.
C25_CopiedMeansDisplayedTextCopied ==
  (Mounted /\ view.copied) => view.clipboard = Str(commands(view))

\* C26 (as claimed): once the view is torn down no reset timer is pending,
\* none is scheduled afterwards and copied is not written again, also when
\* a publish that was in flight at teardown succeeds later.
C26_NothingAfterTeardown ==
  /\ [](view.status = "unmounted" => view.timers = {})
  /\ [][view.status = "unmounted" =>
          /\ view'.timers \subseteq view.timers
          /\ view'.copied = view.copied]_vars

\* the handles setTimeout gives out: a new timer takes the handle that
\* timeoutRef does not hold
TimerHandles == {1, 2}
Pending(id) == \E t \in view.timers : t.id = id

\* C27: at most one reset timer is pending at any time, whatever the
\* interleaving of copy requests, publish completions, timer firings and
\* edits; the pending timer is the one timeoutRef holds, and every timer
\* that is scheduled goes away again, fired or cancelled.
C27_OneTimerHeldByHandle ==
  /\ [](/\ Cardinality(view.timers) <= 1
        /\ \A t \in view.timers : t.id = view.timeoutRef /\ t.id \in TimerHandles)
  /\ \A id \in TimerHandles : Pending(id) ~> ~Pending(id)
\* the second of two copies is still in flight while the timer of the first
\* is running
C27_Witness ==
  /\ Mounted
  /\ view.copies = 2
  /\ Len(view.inflight) = 1
  /\ view.clipboard # Undefined
  /\ \E t \in view.timers : t.id = view.timeoutRef /\ t.remaining < COPY_TIMEOUT_MS

\* C28: in every state of a live view, copied = true implies that a reset
\* timer is pending: copied never stays true with nothing scheduled to
\* clear it.
C28_CopiedHasTimer ==
  (Mounted /\ view.copied) =>
    \E t \in view.timers : t.id = view.timeoutRef /\ t.remaining <= COPY_TIMEOUT_MS
\* copied is true and its timer is due
C28_Witness ==
  /\ Mounted
  /\ view.copied
  /\ \E t \in view.timers : t.remaining = 0

\* what the active provider's pattern and label mapping give for a url
FieldsOf(provider, url) ==
  IF RegexMatch(provider, url).matched
    THEN ProviderExtractInfo(provider, RegexMatch(provider, url))
    ELSE <<>>

\* C29 (as claimed): between events the extracted fields of a live view are
\* exactly what the active provider's pattern and label mapping give for the
\* current url, never values of an earlier url or of another provider.
C29_FieldsAreThoseOfCurrentUrl ==
  Mounted => view.infoFields = FieldsOf(view.provider, view.url)

\* the number of fields the provider's command template reads
FieldsRead(provider) == IF provider = "gitlab" THEN 1 ELSE 2

\* C30 (as claimed): whenever command text is synthesized the field list
\* has every index the active provider's template reads, also after the
\* provider of a live view has changed, and synthesis never raises.
C30_TemplateIndicesCovered ==
  /\ view.status # "crashed"
  /\ hasInfo(view) =>
       /\ Len(view.infoFields) >= FieldsRead(view.provider)
       /\ commands(view) # Thrown

\* inputs on which a capture group could only match by being empty:
\* "github.com//widgets", "github.com/acme/.git", "https:///acme",
\* "app.clickup.com/1/v/li/" and "app.clickup.com/1/v/l/-2"
EdgeUrls ==
  {<<"g", "i", "t", "h", "u", "b", ".", "c", "o", "m", "/", "/", "w", "i", "d", "g", "e", "t", "s">>,
   <<"g", "i", "t", "h", "u", "b", ".", "c", "o", "m", "/", "a", "c", "m", "e", "/", ".", "g", "i", "t">>,
   <<"h", "t", "t", "p", "s", ":", "/", "/", "/", "a", "c", "m", "e">>,
   <<"a", "p", "p", ".", "c", "l", "i", "c", "k", "u", "p", ".", "c", "o", "m", "/", "1", "/", "v", "/", "l", "i", "/">>,
   <<"a", "p", "p", ".", "c", "l", "i", "c", "k", "u", "p", ".", "c", "o", "m", "/", "1", "/", "v", "/", "l", "/", "-", "2">>}
\* the keys a provider's command template sets from captures
CaptureKeys(provider) ==
  CASE provider = "github" -> {<<"github.owner">>, <<"github.repo">>}
    [] provider = "gitlab" -> {<<"gitlab.url">>}
    [] provider = "clickup" -> {<<"clickup.list_id">>, <<"clickup.team_id">>}
\* a piece of shown text that stands for an empty capture
ShowsEmpty(text) == text = <<>> \/ text = <<"undefined">>

\* C31: whenever extraction succeeds every extracted field has a non-empty
\* value, for the three providers and every matching input (for clickup one
\* of the two list-id alternatives is non-empty); neither the field summary
\* nor the command text shows an empty capture.
C31_ExtractedValuesNonEmpty ==
  /\ \A i \in 1..Len(view.infoFields) : Truthy(view.infoFields[i].value)
  /\ hasInfo(view) =>
       /\ \A i \in 1..Len(view.infoFields) :
            LET line == RenderFieldSummary(view)[i]
            IN  /\ Len(line) > Len(<<view.infoFields[i].label, ":", " ">>)
                /\ line[Len(line)] # "undefined"
       /\ \A key \in CaptureKeys(view.provider) :
            ~ShowsEmpty(ValueOfKey(RenderCommandBlock(view), key))
  /\ \A provider \in Providers : \A url \in AllUrls \cup EdgeUrls :
       \A i \in 1..Len(FieldsOf(provider, url)) :
         Truthy(FieldsOf(provider, url)[i].value)
\* a list URL of the hyphen form was extracted: the li/ capture is undefined
\* and the List ID shown is the capture of the other alternative
C31_Witness ==
  /\ view.provider = "clickup"
  /\ RegexMatch("clickup", view.url).matched
  /\ RegexMatch("clickup", view.url).groups[2] = Undefined
  /\ hasInfo(view)
  /\ ValueOfKey(RenderCommandBlock(view), <<"clickup.list_id">>) = ListDigits

\* owner && repo: the standalone component shows its result section
RepoResultSectionShown(r) == r.owner # <<>> /\ r.repo # <<>>

\* C32: ConfigExtractor with provider github and the standalone
\* RepoConfigExtractor, fed the same url, token, help-toggle, copy and timer
\* events, show after every event the same Owner and Repo, the same command
\* text, the same copied flag and the same result-section visibility (and
\* have handed the same texts to the clipboard).
C32_StandaloneEquivalentToGithub ==
  /\ RenderFieldSummary(view) = RepoRenderFieldSummary(standalone)
  /\ RenderCommandBlock(view) = RepoRenderCommandBlock(standalone)
  /\ commands(view) = RepoCommands(standalone)
  /\ view.copied = standalone.copied
  /\ RenderCopyButton(view) = RepoRenderCopyButton(standalone)
  /\ ResultSectionShown(view) <=> RepoResultSectionShown(standalone)
  /\ view.showTokenHelp = standalone.showTokenHelp
  /\ view.inflight = standalone.inflight
  /\ view.clipboard = standalone.clipboard
  /\ view.timers = standalone.timers
\* after a copy of the commands of a .git url, a url that does not match was
\* typed into both while the reset timer was pending
C32_Witness ==
  /\ standalone.url = UrlProse
  /\ standalone.owner = <<>>
  /\ ~RepoResultSectionShown(standalone)
  /\ standalone.timers # {}
  /\ standalone.clipboard = Str(RepoCommands(RepoHandleUrlChange(standalone, UrlGithubGit)))
  /\ view.infoFields = <<>>

\* C33 (as claimed): every SIGINT or SIGTERM the wrapper receives while the
\* child is running is forwarded to the child, a second or later one after
\* an earlier one was forwarded and the child kept running included; the
\* wrapper does not exit on the signal, only when the child exits.
C33_EverySignalForwarded ==
  /\ [](launcher.forwarded = launcher.received)
  /\ [][SignalReceived => launcher'.phase = "spawned"]_vars

\* C34 (as claimed): when the child terminates because of a signal S, the
\* wrapper terminates by the same signal S, also for SIGINT and SIGTERM,
\* for which the wrapper has installed its own listeners.
C34_WrapperDiesByChildSignal ==
  (launcher.phase = "exited" /\ launcher.childSignal # Null) =>
    /\ launcher.exitSignal = launcher.childSignal
    /\ launcher.exitCode = Null

\* the wrapper has something to finish with: a lookup that threw, a spawn
\* that failed, or a child that ended
MustExit ==
  \/ launcher.phase = "done" /\ launcher.result.kind = "throw"
  \/ launcher.child \in {"failed", "exited"}

\* C35: the wrapper always terminates with a defined status: when
\* getBinaryPath throws it prints the message and exits with code 1 without
\* spawning a child; when the spawn fails it exits with code 1; when the
\* child exits with code c it exits with c, and with 1 when the child
\* reports neither a code nor a signal.
C35_DefinedExitStatus ==
  /\ [](launcher.phase = "exited" =>
          /\ (launcher.exitCode # Null) # (launcher.exitSignal # Null)
          /\ launcher.result.kind = "throw" =>
               /\ launcher.exitCode = Some(1)
               /\ launcher.child = "none"
               /\ launcher.stderr = <<launcher.result.value>>
          /\ launcher.child = "failed" => launcher.exitCode = Some(1)
          /\ (launcher.child = "exited" /\ launcher.childCode # Null) =>
               launcher.exitCode = launcher.childCode
          /\ (launcher.child = "exited" /\ launcher.childCode = Null
                /\ launcher.childSignal = Null) =>
               launcher.exitCode = Some(1))
  /\ MustExit ~> (launcher.phase = "exited")
\* the child was sent a signal, went on and exited with code 0, and so did
\* the wrapper
C35_Witness ==
  /\ launcher.phase = "exited"
  /\ launcher.child = "exited"
  /\ launcher.forwarded # <<>>
  /\ launcher.childCode = Some(0)
  /\ launcher.exitCode = Some(0)
  /\ launcher.exitSignal = Null

====
